---- MODULE Spec2Model ----
(***************************************************************************)
(* Model of src/ean_history_search.py: EANHistoryFinder.validate_ean, the  *)
(* concurrent orchestration of EANHistoryFinder.search over a              *)
(* ThreadPoolExecutor, and the network-call layer of one task.             *)
(***************************************************************************)
EXTENDS Bags, FiniteSets, Integers, Sequences, TLC

(* ------------------------------ bounds --------------------------------- *)

\* Number of web-search terms of a run (the source builds 11 of them).
NumTerms == 2

\* Longest candidate list a web-search task returns (max_results is 10).
MaxCand == 4

\* Cap on the fetch-and-analyze tasks one run gives rise to: a web-search
\* task returns a list only if the tasks of its first K entries fit.
MaxUrlTasks == 3

\* Longest input string given to validate_ean.
MaxLen == 15

(* ------------------------- program constants --------------------------- *)

\* ThreadPoolExecutor(max_workers=8)
MaxWorkers == 8

\* results[:3]
K == 3

Min(a, b) == IF a < b THEN a ELSE b

(* --------------------------- validate_ean ------------------------------ *)

\* Characters of an input string.  "sup2" is U+00B2 (str.isdigit() is True,
\* int() raises ValueError), "ar3" is U+0663 (isdigit() True, int() = 3),
\* "x" is a character that is no digit.
AsciiDigits == {"0", "1", "2", "3", "4", "5", "6", "7", "8", "9"}

Chars == AsciiDigits \cup {"x", "sup2", "ar3"}

\* str.isdigit() of one character
CharIsDigit(c) == c \in AsciiDigits \cup {"sup2", "ar3"}

\* str.isdigit(): non-empty and every character is a digit
isdigit(s) == Len(s) > 0 /\ \A i \in 1..Len(s) : CharIsDigit(s[i])

\* int(c) succeeds
IntOk(c) == c \in AsciiDigits \cup {"ar3"}

\* int(c) of one character for which it succeeds
int(c) ==
    CASE c = "0" -> 0 [] c = "1" -> 1 [] c = "2" -> 2 [] c = "3" -> 3
      [] c = "4" -> 4 [] c = "5" -> 5 [] c = "6" -> 6 [] c = "7" -> 7
      [] c = "8" -> 8 [] c = "9" -> 9 [] c = "ar3" -> 3

\* Variant of total: the weights 1 and 3 are exchanged.
RECURSIVE total_Swapped(_, _)
total_Swapped(s, n) ==
    IF n = 0 THEN 0
    ELSE total_Swapped(s, n - 1)
         + (IF (n - 1) % 2 = 0 THEN int(s[n]) * 3 ELSE int(s[n]))

\* total after the loop "for i in range(12)" has run its first n rounds;
\* round i (0-based) reads s[i], which is s[i+1] here.
RECURSIVE total(_, _)
total(s, n) ==
    IF n = 0 THEN 0
    ELSE total(s, n - 1) + (IF (n - 1) % 2 = 0 THEN int(s[n]) ELSE int(s[n]) * 3)

check_digit(s) == (10 - (total(s, 12) % 10)) % 10

valid_lengths == {8, 13, 14}

\* validate_ean: "True", "False", or "ValueError" when an int() call raises.
validate_ean(s) ==
    IF ~isdigit(s) THEN "False"
    ELSE IF Len(s) \notin valid_lengths THEN "False"
    ELSE IF Len(s) = 13
         THEN IF \E i \in 1..13 : ~IntOk(s[i]) THEN "ValueError"
              ELSE IF check_digit(s) = int(s[13]) THEN "True" ELSE "False"
    ELSE "True"

(* ------------------------------ inputs --------------------------------- *)

DigitChar(d) ==
    CASE d = 0 -> "0" [] d = 1 -> "1" [] d = 2 -> "2" [] d = 3 -> "3"
      [] d = 4 -> "4" [] d = 5 -> "5" [] d = 6 -> "6" [] d = 7 -> "7"
      [] d = 8 -> "8" [] d = 9 -> "9"

\* The string 1234567890123... cut to n characters.
BaseCode(n) == [i \in 1..n |-> DigitChar(i % 10)]

\* s with the character at position p replaced by c.
Replace(s, p, c) == [i \in 1..Len(s) |-> IF i = p THEN c ELSE s[i]]

EAN128 == Replace(BaseCode(13), 13, "8")

EAN123 == BaseCode(13)

\* Inputs of validate_ean: every prefix of 1234567890123..., and each of
\* them with one character replaced.
ValidateCodes ==
    {BaseCode(n) : n \in 0..MaxLen}
    \cup {Replace(BaseCode(n), p, c) : n \in 1..MaxLen, p \in 1..MaxLen, c \in Chars}

\* Codes given to search().
SearchCodes ==
    {EAN128, EAN123, Replace(BaseCode(8), 8, "x"), Replace(BaseCode(13), 13, "sup2")}

(* ------------------------------ tasks ---------------------------------- *)

Terms == 1..NumTerms

\* 1 = search_openfoodfacts, 2 = search_wayback_machine, 3 = search_amazon
Enrichments == 1..3

EnrTask(k) == [kind |-> "enr", t |-> k, i |-> 0]

GoogleTask(t) == [kind |-> "google", t |-> t, i |-> 0]

UrlTask(t, i) == [kind |-> "url", t |-> t, i |-> i]

\* What a task hands back when it found nothing, failed or timed out.
NoneResult == [none |-> TRUE, url |-> 0, findings |-> <<>>]

SourceResult(u, fs) == [none |-> FALSE, url |-> u, findings |-> fs]

EnrAssessment(k) ==
    CASE k = 1 -> "OFProduct" [] k = 2 -> "Wayback" [] k = 3 -> "Amazon"

\* A finding of source u: its assessment and its snippet (told by a number;
\* the snippets of one source are distinct, lines 564-568).
Finding(u, a, n) == [assessment |-> a, url |-> u, snippet |-> n]

\* The dict an enrichment lookup returns on success: one finding.
EnrResult(k) == SourceResult(100 + k, <<Finding(100 + k, EnrAssessment(k), 1)>>)

\* The link of the i-th candidate of term t (links are distinct within one
\* list, and lists of different terms overlap).
Link(t, i) == t + i - 1

\* Lengths of the candidate lists the web-search tasks return: no candidate,
\* one, or more than K.
CandLens == {0, 1, MaxCand}

\* The candidate list of n entries of term t.
CandList(t, n) == [i \in 1..n |-> [link |-> Link(t, i)]]

\* The assessments analyze_content gives to the mentions on the page at
\* link u (lines 521-558 and 598): pages differ, and different pages can
\* have findings that are alike.
PageAssessments(u) ==
    IF u % 3 = 2 THEN <<"Histórico", "Actual">> ELSE <<"Indeterminado">>

\* The dict _process_url returns when analyze_content has findings.
UrlResult(u) ==
    SourceResult(u, [n \in 1..Len(PageAssessments(u)) |->
                        Finding(u, PageAssessments(u)[n], n)])

(* ------------------------------ state ---------------------------------- *)

VARIABLES
    ean,          \* self.ean
    pc,           \* position of the thread that runs search()
    verdict,      \* what validate_ean() gave at line 337 ("unset" before)
    submitted,    \* the futures handed to executor.submit, in order
    done,         \* the futures that have completed
    ret,          \* future.result() of every future whose result was read
    seen1,        \* terms whose future the first as_completed loop has yielded
    seen2,        \* futures the second as_completed loop has yielded
    all_results,  \* all_results (its entries, with multiplicity)
    retval,       \* what search() returned
    tenacity,     \* the import of tenacity succeeded (lines 21-24)
    site,         \* the task function whose network calls are followed
    tpc,          \* position of that task function
    domain,       \* index into google_domains of the loop at line 189
    search_calls, \* number of times the retry wrapper has called _search
    requests_log, \* the session.get calls made (line 144), in order
    slept,        \* the delays the retry wrapper has slept
    task_ret,     \* what the task function returned
    unique_results, \* unique_results of search_with_requests (line 236)
    content,      \* the text handed to analyze_content()
    analyzed,     \* what analyze_content() returned, once called
    findings_by_assessment, \* the groups format_results() builds (line 629)
    csv_data,     \* the rows save_results_to_csv() builds (line 751)
    interrupted,  \* a KeyboardInterrupt reached the thread that runs search()
    started,      \* number of work items a worker had taken by then
    proxies,      \* len(self.proxies)
    proxy_index,  \* self.proxy_index
    thread,       \* position and locals of each worker inside a request
    issued,       \* the session.get calls of the workers, in order
    touched       \* the accesses of worker threads to attributes of self

orchVars == <<ean, pc, verdict, submitted, done, ret, seen1, seen2, all_results, retval>>

netVars == <<tenacity, site, tpc, domain, search_calls, requests_log, slept, task_ret,
             unique_results>>

anVars == <<content, analyzed>>

repVars == <<findings_by_assessment, csv_data>>

intVars == <<interrupted, started>>

pxVars == <<proxies, proxy_index, thread, issued, touched>>

sideVars == <<anVars, repVars, intVars, pxVars>>

vars == <<ean, pc, verdict, submitted, done, ret, seen1, seen2, all_results, retval,
          tenacity, site, tpc, domain, search_calls, requests_log, slept, task_ret,
          unique_results, content, analyzed, findings_by_assessment, csv_data,
          interrupted, started, proxies, proxy_index, thread, issued, touched>>

Range(s) == {s[j] : j \in 1..Len(s)}

\* url_analysis_futures
url_analysis_futures == {f \in Range(submitted) : f.kind = "url"}

\* all_futures after line 369
all_futures == {EnrTask(k) : k \in Enrichments} \cup url_analysis_futures

\* The submitted work items no worker has finished, oldest first.
Undone == SelectSeq(submitted, LAMBDA f : f \notin done)

\* The work items the pool's workers hold: the queue is FIFO and there are
\* max_workers workers.
Running == {Undone[j] : j \in 1..Min(MaxWorkers, Len(Undone))}

NoReturn == [kind |-> "none", value |-> EmptyBag]

\* The network layer at rest: no task function is being followed.
NetIdle ==
    /\ tenacity = FALSE
    /\ site = "none"
    /\ tpc = "idle"
    /\ domain = 1
    /\ search_calls = 0
    /\ requests_log = <<>>
    /\ slept = <<>>
    /\ task_ret = "unset"
    /\ unique_results = <<>>

\* analyze_content() at rest: it has not been called.
NotAnalyzed == [called |-> FALSE, none |-> FALSE, findings |-> <<>>]

AnIdle ==
    /\ content = <<>>
    /\ analyzed = NotAnalyzed

\* Line 629: the keys of findings_by_assessment.
GroupKeys == {"Histórico", "Actual", "Indeterminado", "OFProduct", "Wayback", "Amazon"}

NotFormatted == [state |-> "unset", groups |-> [g \in GroupKeys |-> EmptyBag]]

NotSaved == [state |-> "unset", rows |-> EmptyBag]

\* main() has not reported yet.
RepIdle ==
    /\ findings_by_assessment = NotFormatted
    /\ csv_data = NotSaved

\* No interrupt has arrived.
IntIdle ==
    /\ interrupted = FALSE
    /\ started = 0

\* No worker is inside _request_with_retry.
PxIdle ==
    /\ proxies = 0
    /\ proxy_index = 0
    /\ thread = << >>
    /\ issued = <<>>
    /\ touched = {}

\* search() at rest: it has not been called.
OrchIdle ==
    /\ pc = "start"
    /\ verdict = "unset"
    /\ submitted = <<>>
    /\ done = {}
    /\ ret = << >>
    /\ seen1 = {}
    /\ seen2 = {}
    /\ all_results = EmptyBag
    /\ retval = NoReturn

Init ==
    /\ ean \in SearchCodes
    /\ OrchIdle
    /\ NetIdle
    /\ AnIdle /\ RepIdle /\ IntIdle /\ PxIdle

(* ---------------------------- search() --------------------------------- *)

\* Lines 350-354: the three enrichment lookups, then one task per term.
FirstWave ==
    [j \in 1..(3 + NumTerms) |->
        IF j <= 3 THEN EnrTask(j) ELSE GoogleTask(j - 3)]

\* Variant of SearchInvalid: the first wave is submitted before the check.
SearchInvalid_SubmitFirst ==
    /\ pc = "start"
    /\ validate_ean(ean) = "False"
    /\ verdict' = "False"
    /\ pc' = "returned"
    /\ submitted' = submitted \o FirstWave
    /\ retval' = [kind |-> "list", value |-> all_results]
    /\ UNCHANGED <<sideVars, netVars, ean, done, ret, seen1, seen2, all_results>>

\* Lines 337-339: the code is invalid, search() returns [].
SearchInvalid ==
    /\ pc = "start"
    /\ validate_ean(ean) = "False"
    /\ verdict' = "False"
    /\ pc' = "returned"
    /\ retval' = [kind |-> "list", value |-> all_results]
    /\ UNCHANGED <<sideVars, netVars, ean, submitted, done, ret, seen1, seen2, all_results>>

\* Line 337: validate_ean() raises, search() ends with the exception.
SearchRaises ==
    /\ pc = "start"
    /\ validate_ean(ean) = "ValueError"
    /\ verdict' = "ValueError"
    /\ pc' = "raised"
    /\ retval' = [kind |-> "ValueError", value |-> EmptyBag]
    /\ UNCHANGED <<sideVars, netVars, ean, submitted, done, ret, seen1, seen2, all_results>>

\* Lines 337-356: the code is valid, the first wave is submitted and the
\* thread waits in the first as_completed loop.
SearchStart ==
    /\ pc = "start"
    /\ validate_ean(ean) = "True"
    /\ verdict' = "True"
    /\ submitted' = submitted \o FirstWave
    /\ pc' = "loop1"
    /\ UNCHANGED <<sideVars, netVars, ean, done, ret, seen1, seen2, all_results, retval>>

\* A worker finishes the work item f: the future of f is done.  The value
\* the future holds is not read by anyone before future.result() (lines 359
\* and 371); it is drawn there.
WorkerFinishes(f) ==
    /\ f \in Running
    /\ done' = done \cup {f}
    /\ UNCHANGED <<sideVars, netVars, ean, pc, verdict, submitted, ret, seen1, seen2, all_results, retval>>

\* What search_with_requests(term) can return: a list of candidates.
GoogleOutcomes(t) ==
    {CandList(t, n) : n \in {m \in CandLens :
        Cardinality(url_analysis_futures) + Min(K, m) <= MaxUrlTasks}}

\* What an enrichment lookup or _process_url can return: the dict with its
\* findings, or None.
Outcomes(f) ==
    IF f.kind = "enr" THEN {NoneResult, EnrResult(f.t)}
    ELSE {NoneResult, UrlResult(Link(f.t, f.i))}

\* Variant of UrlTasksFor: only the candidates of the term whose task
\* completes first are analysed.
UrlTasksFor_FirstTermOnly(t, results) ==
    IF url_analysis_futures = {}
    THEN [i \in 1..Min(K, Len(results)) |-> UrlTask(t, i)]
    ELSE <<>>

\* Variant of UrlTasksFor: the slice [:3] is missing.
UrlTasksFor_NoSlice(t, results) ==
    [i \in 1..Len(results) |-> UrlTask(t, i)]

\* Lines 361-365: the tasks submitted for one candidate list.
UrlTasksFor(t, results) ==
    [i \in 1..Min(K, Len(results)) |-> UrlTask(t, i)]

\* The first loop is over once every term's future has been yielded.
Loop1Exhausted(seen) == seen = Terms

\* Lines 356-367: as_completed yields the future of a term whose task has
\* completed; its first K candidates are submitted.  After the last term the
\* thread goes on to the second loop (line 369).
Loop1Step(t) ==
    /\ pc = "loop1"
    /\ t \notin seen1
    /\ GoogleTask(t) \in done
    /\ \E results \in GoogleOutcomes(t) :
          /\ ret' = (GoogleTask(t) :> results) @@ ret
          /\ submitted' = submitted \o UrlTasksFor(t, results)
    /\ seen1' = seen1 \cup {t}
    /\ pc' = IF Loop1Exhausted(seen1') THEN "loop2" ELSE "loop1"
    /\ UNCHANGED <<sideVars, netVars, ean, verdict, done, seen2, all_results, retval>>

\* Variant of Kept: an analysis needs more than one finding to be kept.
Kept_MoreThanOne(analysis) == ~analysis.none /\ Len(analysis.findings) > 1

\* Line 372: the test that decides whether an analysis is kept.
Kept(analysis) == ~analysis.none /\ Len(analysis.findings) > 0

\* Variant of Loop2Exhausted: line 369 is missing, the loop runs over the
\* enrichment futures only.
Loop2Exhausted_NoExtend(seen) == {EnrTask(k) : k \in Enrichments} \subseteq seen

\* The second loop is over once every future of all_futures has been yielded.
Loop2Exhausted(seen) == all_futures \subseteq seen

\* Variant of Yields2: only the enrichment futures are ever yielded.
Yields2_EnrOnly(f) ==
    f \in all_futures /\ f \notin seen2 /\ f \in done /\ f.kind = "enr"

\* Line 370: as_completed(all_futures) can yield f.
Yields2(f) == f \in all_futures /\ f \notin seen2 /\ f \in done

\* Lines 370-383: as_completed yields a completed future of all_futures; its
\* result is appended when it has findings.  After the last one the executor
\* is shut down and search() returns all_results.
Loop2Step(f) ==
    /\ pc = "loop2"
    /\ Yields2(f)
    /\ \E analysis \in Outcomes(f) :
          /\ ret' = (f :> analysis) @@ ret
          /\ all_results' = IF Kept(analysis)
                            THEN all_results (+) SetToBag({analysis})
                            ELSE all_results
    /\ seen2' = seen2 \cup {f}
    /\ IF Loop2Exhausted(seen2')
       THEN /\ pc' = "returned"
            /\ retval' = [kind |-> "list", value |-> all_results']
       ELSE /\ pc' = "loop2"
            /\ retval' = retval
    /\ UNCHANGED <<sideVars, netVars, ean, verdict, submitted, done, seen1>>

(* --------------- format_results() and save_results_to_csv() ------------ *)

\* The findings of one result as a bag.
RECURSIVE BagOfSeq(_)
BagOfSeq(fs) ==
    IF fs = <<>> THEN EmptyBag ELSE SetToBag({Head(fs)}) (+) BagOfSeq(Tail(fs))

\* n copies of the bag B.
RECURSIVE Times(_, _)
Times(n, B) == IF n = 0 THEN EmptyBag ELSE B (+) Times(n - 1, B)

\* Variant of FindingsOf: only the first finding of a result is visited.
FindingsOf_FirstOnly(r) == SubSeq(r.findings, 1, 1)

\* Lines 632 and 754: for finding in result["findings"]
FindingsOf(r) == r.findings

\* Lines 631-632 and 753-754: every finding of every result, as often as the
\* two nested loops visit it.
RECURSIVE AllFindings(_, _)
AllFindings(results, R) ==
    IF R = {} THEN EmptyBag
    ELSE LET r == CHOOSE x \in R : TRUE
         IN  Times(CopiesIn(r, results), BagOfSeq(FindingsOf(r)))
             (+) AllFindings(results, R \ {r})

\* Lines 633-634: the findings of the bag B whose assessment is g.
GroupOf(B, g) ==
    LET S == {x \in BagToSet(B) : x.assessment = g}
    IN  [x \in S |-> CopiesIn(x, B)]

\* Lines 618-634: nothing is grouped for an empty list; a finding is
\* appended to the list of its assessment, and an assessment that is no
\* key raises KeyError.
format_results(results) ==
    LET all == AllFindings(results, BagToSet(results))
    IN  IF results = EmptyBag THEN [NotFormatted EXCEPT !.state = "none"]
        ELSE IF \E f \in BagToSet(all) : f.assessment \notin GroupKeys
        THEN [NotFormatted EXCEPT !.state = "KeyError"]
        ELSE [state |-> "built",
              groups |-> [g \in GroupKeys |-> GroupOf(all, g)]]

\* Lines 755-762: the row of a finding.
Row(f) == [EAN |-> ean, URL |-> f.url, Evaluacion |-> f.assessment,
           Fragmento |-> f.snippet]

RECURSIVE RowsOf(_, _)
\* The rows of the findings in F, with the multiplicity they have in all.
RowsOf(all, F) ==
    IF F = {} THEN EmptyBag
    ELSE LET f == CHOOSE x \in F : TRUE
         IN  Times(CopiesIn(f, all), SetToBag({Row(f)})) (+) RowsOf(all, F \ {f})

\* Lines 751-762: csv_data.
csv_rows(results) ==
    LET all == AllFindings(results, BagToSet(results))
    IN  RowsOf(all, BagToSet(all))

\* Line 822 of main(): format_results(results); a KeyError ends main().
FormatResults ==
    /\ pc = "returned"
    /\ findings_by_assessment.state = "unset"
    /\ findings_by_assessment' = format_results(retval.value)
    /\ UNCHANGED <<anVars, intVars, pxVars, netVars, orchVars, csv_data>>

\* Lines 823-824 of main(): if results: save_results_to_csv(results).
SaveResults ==
    /\ findings_by_assessment.state \in {"none", "built"}
    /\ csv_data.state = "unset"
    /\ csv_data' = IF retval.value = EmptyBag
                   THEN [NotSaved EXCEPT !.state = "skipped"]
                   ELSE [state |-> "written", rows |-> csv_rows(retval.value)]
    /\ UNCHANGED <<anVars, intVars, pxVars, netVars, orchVars, findings_by_assessment>>

Report == FormatResults \/ SaveResults


Worker == \E f \in Range(submitted) : WorkerFinishes(f)

Orchestrator ==
    \/ SearchInvalid
    \/ SearchRaises
    \/ SearchStart
    \/ \E t \in Terms : Loop1Step(t)
    \/ \E f \in all_futures : Loop2Step(f)

Next == Worker \/ Orchestrator \/ Report

Spec == Init /\ [][Next]_vars

\* search() with every submitted task eventually finishing and the thread of
\* search() running whenever a future it waits for is ready: the program
\* does not stop while a worker or search() can take a step.
FairSpec == Spec /\ WF_vars(Next)

(* ---------------------- validate_ean on its own ------------------------ *)

\* validate_ean() is applied to the input.
ValidateStep ==
    /\ pc = "start"
    /\ verdict' = validate_ean(ean)
    /\ pc' = "validated"
    /\ UNCHANGED <<sideVars, netVars, ean, submitted, done, ret, seen1, seen2, all_results, retval>>

InitValidate ==
    /\ ean \in ValidateCodes
    /\ OrchIdle
    /\ NetIdle
    /\ AnIdle /\ RepIdle /\ IntIdle /\ PxIdle

SpecValidate == InitValidate /\ [][ValidateStep]_vars


(* ------------------- the network calls of one task --------------------- *)

\* stop_after_attempt(3) and retry_on_exception(3)
MaxAttempts == 3

\* The three entries of google_domains.
NumDomains == 3

\* The task functions that issue requests.
DirectSites ==
    {"search_openfoodfacts", "search_wayback_machine", "search_amazon",
     "extract_content_from_url"}

Sites == DirectSites \cup {"search_with_requests"}

\* requests.RequestException subclasses raised by session.get.
RequestExceptions == {"ConnectionError", "Timeout"}

\* What session.get(url, timeout=SEARCH_TIMEOUT) can do: answer 200 with or
\* without usable content, answer with an error status, or raise.
Responses == {"200_hits", "200_empty", "4xx", "5xx"} \cup RequestExceptions

\* Lines 234-235: "except Exception: continue" inside the loop over the
\* domains catches whatever the request raises.
CaughtByLoop(resp) == resp \in RequestExceptions

\* An exception leaves _search, so that the retry wrapper sees it.
SearchEscapes(resp) == resp \in RequestExceptions /\ ~CaughtByLoop(resp)

\* Lines 128-136 and 50-65: the wrapper calls _search again after an
\* exception, up to MaxAttempts calls; tenacity only for RequestException.
RetryAgain(resp, attempt) ==
    /\ SearchEscapes(resp)
    /\ attempt < MaxAttempts
    /\ tenacity => resp \in RequestExceptions

\* The delay slept before the next attempt: wait_exponential(multiplier=1,
\* min=2, max=10) with tenacity, 1, 2, 4, ... without.
Delay(attempt) ==
    IF tenacity THEN Min(10, IF 2 ^ attempt < 2 THEN 2 ELSE 2 ^ attempt)
    ELSE 2 ^ (attempt - 1)

\* What a task function with a single request returns (lines 245-329 and
\* 399-437): every exception is caught inside the function.
DirectReturn(s, resp) ==
    IF s = "extract_content_from_url"
    THEN IF resp = "200_hits" THEN "text" ELSE "empty_text"
    ELSE IF resp = "200_hits" THEN "dict"
    ELSE IF resp = "200_empty" /\ s = "search_amazon" THEN "dict"
    ELSE "None"

\* Links a result page can hold.
MaxLinks == 2

\* Most candidates one result page gives.
MaxHits == 3

RECURSIVE LinkLists(_)
\* The lists of at most n links.
LinkLists(n) ==
    IF n = 0 THEN {<<>>}
    ELSE LinkLists(n - 1)
         \cup {Append(q, l) : q \in LinkLists(n - 1), l \in 1..MaxLinks}

\* Lines 204-230: domain_results of a page with candidates, by their links;
\* a link can come more than once.
HitLists == LinkLists(MaxHits) \ {<<>>}

\* The candidates a response gives.
HitsOf(resp) == IF resp = "200_hits" THEN HitLists ELSE {<<>>}

\* Lines 224-228: the candidates of the page of domain d; the domain is kept
\* with each of them.
DomainResults(d, hits) == [k \in 1..Len(hits) |-> [link |-> hits[k], domain |-> d]]

\* Variant of Unique: of the candidates with one link the last is kept.
Unique_KeepLast(results) ==
    LET idx == SelectSeq([k \in 1..Len(results) |-> k],
                   LAMBDA k : \A j \in (k + 1)..Len(results) :
                                 results[j].link # results[k].link)
    IN  [n \in 1..Len(idx) |-> results[idx[n]]]

\* Lines 236-242: unique_results, the candidates whose link was not seen
\* before, in their order.
Unique(results) ==
    LET idx == SelectSeq([k \in 1..Len(results) |-> k],
                   LAMBDA k : \A j \in 1..(k - 1) :
                                 results[j].link # results[k].link)
    IN  [n \in 1..Len(idx) |-> results[idx[n]]]

\* Lines 189-243: _search requests the current domain.  A 200 answer with
\* candidates ends the loop (lines 231-233) and its candidates, without
\* repeated links, are returned; any other answer, and any exception, moves
\* on to the next domain; after the last domain _search returns the empty
\* list.
GoogleRequest ==
    /\ site = "search_with_requests"
    /\ tpc = "run"
    /\ \E resp \in Responses :
       \E hits \in HitsOf(resp) :
          /\ requests_log' =
                Append(requests_log, [url |-> domain, resp |-> resp, hits |-> hits])
          /\ IF SearchEscapes(resp)
             THEN IF RetryAgain(resp, search_calls)
                  THEN /\ slept' = Append(slept, Delay(search_calls))
                       /\ search_calls' = search_calls + 1
                       /\ domain' = 1
                       /\ UNCHANGED <<tpc, task_ret, unique_results>>
                  ELSE /\ tpc' = "raised"
                       /\ UNCHANGED <<slept, search_calls, domain, task_ret,
                                      unique_results>>
             ELSE IF resp = "200_hits"
                  THEN /\ tpc' = "finished"
                       /\ task_ret' = "candidates"
                       /\ unique_results' = Unique(DomainResults(domain, hits))
                       /\ UNCHANGED <<slept, search_calls, domain>>
             ELSE IF domain < NumDomains
                  THEN /\ domain' = domain + 1
                       /\ UNCHANGED <<slept, search_calls, tpc, task_ret,
                                      unique_results>>
             ELSE /\ tpc' = "finished"
                  /\ task_ret' = "empty_list"
                  /\ unique_results' = Unique(<<>>)
                  /\ UNCHANGED <<slept, search_calls, domain>>
    /\ UNCHANGED <<sideVars, orchVars, tenacity, site>>

\* Lines 251, 278, 305, 411: the single _request_with_retry call of an
\* enrichment lookup or of extract_content_from_url; _request_with_retry
\* (lines 138-144) calls session.get once.
DirectRequest ==
    /\ site \in DirectSites
    /\ tpc = "run"
    /\ \E resp \in Responses :
          /\ requests_log' = Append(requests_log, [url |-> 0, resp |-> resp])
          /\ task_ret' = DirectReturn(site, resp)
    /\ tpc' = "finished"
    /\ UNCHANGED <<sideVars, orchVars, unique_results, tenacity, site, domain, search_calls, slept>>

InitTask ==
    /\ ean = EAN128
    /\ OrchIdle
    /\ tenacity \in BOOLEAN
    /\ site \in Sites
    /\ tpc = "run"
    /\ domain = 1
    /\ search_calls = 1
    /\ requests_log = <<>>
    /\ slept = <<>>
    /\ task_ret = "unset"
    /\ unique_results = <<>>
    /\ AnIdle /\ RepIdle /\ IntIdle /\ PxIdle

NextTask == GoogleRequest \/ DirectRequest

SpecTask == InitTask /\ [][NextTask]_vars

(* ------------------------------ claims --------------------------------- *)

ValidReturned == pc = "returned" /\ verdict = "True"

\* C1: when search() returns for a valid code, every submitted task
\* (enrichment, web-search term, fetch-and-analyze) has completed and every
\* web-search future has been consumed by the first loop, so that no
\* fetch-and-analyze task can still be submitted.
C1_Drained ==
    ValidReturned =>
        /\ Range(submitted) \subseteq done
        /\ \A t \in Terms : GoogleTask(t) \in done /\ t \in seen1
        /\ \A k \in Enrichments : EnrTask(k) \in done
        /\ \A t \in Terms :
              \A i \in 1..Min(K, Len(ret[GoogleTask(t)])) : UrlTask(t, i) \in done

C1_Witness ==
    /\ ValidReturned
    /\ Cardinality(url_analysis_futures) >= 2

\* The second-wave tasks the outcomes of the web-search tasks call for.
ExpectedUrlTasks ==
    {f \in {UrlTask(t, i) : t \in Terms, i \in 1..K} :
        f.t \in seen1 /\ f.i <= Len(ret[GoogleTask(f.t)])}

RECURSIVE BagOfKept(_)
BagOfKept(F) ==
    IF F = {} THEN EmptyBag
    ELSE LET f == CHOOSE x \in F : TRUE
         IN (IF ~ret[f].none THEN SetToBag({ret[f]}) ELSE EmptyBag)
            (+) BagOfKept(F \ {f})

\* C2: the contents of the list search() returns, taken without order, are
\* a function of the task outcomes alone: the union (with multiplicity) of
\* the non-empty results of the enrichment lookups and of the analyses of
\* the first K candidates of every term, whatever the completion order was.
C2_OrderIndependent ==
    ValidReturned =>
        /\ retval.kind = "list"
        /\ ExpectedUrlTasks \subseteq seen2
        /\ retval.value =
              BagOfKept({EnrTask(k) : k \in Enrichments} \cup ExpectedUrlTasks)

C2_Witness ==
    /\ ValidReturned
    /\ \E f, g \in url_analysis_futures :
          /\ f.t # g.t
          /\ ~ret[f].none /\ ~ret[g].none
          /\ BagIn(ret[f], retval.value) /\ BagIn(ret[g], retval.value)

\* C3: for a valid code, if every submitted task eventually finishes (with
\* a result, with nothing or with a failure), search() eventually returns.
C3_Returns == (verdict = "True") ~> (pc = "returned")

C3_Witness ==
    /\ ValidReturned
    /\ \E f \in all_futures : ret[f].none
    /\ \E t \in Terms : Len(ret[GoogleTask(t)]) = 0

\* C4: at the return of search(), every enrichment or fetch-and-analyze task
\* that yielded a SourceResult with a finding has it in the returned list, as
\* often as tasks yielded it, and the tasks that yielded nothing contribute
\* no entry.
C4_NothingLost ==
    ValidReturned =>
        /\ \A f \in all_futures :
              (~ret[f].none /\ Len(ret[f].findings) >= 1) =>
                  CopiesIn(ret[f], retval.value)
                      = Cardinality({g \in all_futures : ret[g] = ret[f]})
        /\ BagCardinality(retval.value)
              = Cardinality({f \in all_futures : ~ret[f].none})

C4_Witness ==
    /\ ValidReturned
    /\ \E f, g \in url_analysis_futures : ret[f].none /\ ~ret[g].none
    /\ \E k, l \in Enrichments : ret[EnrTask(k)].none /\ ~ret[EnrTask(l)].none

\* C5: no task is submitted before the code has been validated, and when the
\* validation fails search() has returned an empty list without having
\* submitted any task.
C5_InvalidNoTask ==
    /\ verdict = "unset" => submitted = <<>>
    /\ verdict = "False" =>
          /\ pc = "returned"
          /\ submitted = <<>>
          /\ done = {}
          /\ retval = [kind |-> "list", value |-> EmptyBag]

C5_Witness == verdict = "False" /\ pc = "returned" /\ ean = EAN123

\* What search() hands back after a valid run in which no task had findings.
ZeroResultOutcome == [kind |-> "list", value |-> EmptyBag]

\* C6: a run with an invalid code hands the caller of search() an outcome
\* (an InvalidInputError) that differs from the outcome of a valid run that
\* gathered zero results.
C6_InvalidDistinct ==
    (pc = "returned" /\ verdict = "False") =>
        /\ retval # ZeroResultOutcome
        /\ retval.kind = "InvalidInputError"

\* The value the claim gives a digit character.
ClaimDigit(c) == IF c = "sup2" THEN 2 ELSE int(c)

RECURSIVE ClaimSum(_, _)
ClaimSum(s, n) ==
    IF n = 0 THEN 0
    ELSE ClaimSum(s, n - 1)
         + (IF n % 2 = 1 THEN ClaimDigit(s[n]) ELSE 3 * ClaimDigit(s[n]))

ClaimAccepts(s) ==
    /\ \A i \in 1..Len(s) : CharIsDigit(s[i])
    /\ Len(s) \in {8, 13, 14}
    /\ Len(s) = 13 => ClaimDigit(s[13]) = (10 - (ClaimSum(s, 12) % 10)) % 10

\* C7: validate_ean accepts a string exactly when it consists only of
\* digits, has length 8, 13 or 14 and, at length 13, its last digit is
\* (10 - s mod 10) mod 10 for the weighted sum s of the first 12 digits
\* (weight 1 at odd positions, 3 at even positions); every other string is
\* rejected.
C7_ValidateExactly ==
    pc = "validated" =>
        /\ verdict \in {"True", "False"}
        /\ (verdict = "True") <=> ClaimAccepts(ean)

\* C8 as stated: 1234567890128 is rejected and search() starts no lookup.
C8_Rejects128 ==
    (ean = EAN128 /\ pc # "start") => (verdict = "False" /\ submitted = <<>>)

\* C8 amended: 1234567890128 has the right check digit, validate_ean accepts
\* it and search() submits its lookups; 1234567890123, with the same first
\* twelve digits, is rejected and search() returns an empty list on it
\* without starting any lookup.
C8_Accepts128 ==
    /\ (ean = EAN128 /\ pc # "start") =>
          (verdict = "True" /\ Len(submitted) >= 3 + NumTerms)
    /\ (ean = EAN123 /\ pc # "start") =>
          /\ verdict = "False"
          /\ submitted = <<>>
          /\ retval = [kind |-> "list", value |-> EmptyBag]

C8_Witness == ean = EAN128 /\ pc = "loop1" /\ Len(submitted) = 3 + NumTerms

\* The fetch-and-analyze tasks submitted for term t.
UrlTasksOf(t) == {f \in url_analysis_futures : f.t = t}

\* C9: once the future of a term has been consumed, exactly one
\* fetch-and-analyze task has been submitted for each of its first K = 3
\* candidates and none for later ones; nothing is submitted for a term
\* before that; so the second-wave tasks never outnumber 3 times the
\* completed web-search tasks.
C9_FirstK ==
    /\ \A t \in seen1 :
          UrlTasksOf(t) =
              {UrlTask(t, i) : i \in 1..Min(3, Len(ret[GoogleTask(t)]))}
    /\ \A t \in Terms \ seen1 : UrlTasksOf(t) = {}
    /\ Len(submitted) = Cardinality(Range(submitted))
    /\ Cardinality(url_analysis_futures)
          <= 3 * Cardinality({t \in Terms : GoogleTask(t) \in done})

\* A term with more than K candidates has had its tasks submitted while the
\* task of another term is still running.
C9_Witness ==
    \E t, u \in Terms :
        /\ t \in seen1
        /\ Len(ret[GoogleTask(t)]) > K
        /\ Cardinality(UrlTasksOf(t)) = K
        /\ GoogleTask(u) \notin done

\* The requests of the log that went to the URL of its j-th request.
RequestsTo(j) ==
    {m \in 1..Len(requests_log) : requests_log[m].url = requests_log[j].url}

\* C10: by the time a task function has finished, every request of it that
\* failed with a connection-level error has been issued again (retried),
\* after a sleep, and at most MaxAttempts times in all; a request answered
\* with a 4xx/5xx status has not been issued again.
C10_RetryPolicy ==
    tpc = "finished" =>
        \A j \in 1..Len(requests_log) :
            /\ requests_log[j].resp \in RequestExceptions =>
                  /\ Cardinality(RequestsTo(j)) >= 2
                  /\ Cardinality(RequestsTo(j)) <= MaxAttempts
                  /\ Len(slept) >= 1
            /\ requests_log[j].resp \in {"4xx", "5xx"} =>
                  Cardinality(RequestsTo(j)) = 1

(* ------------------------- analyze_content() --------------------------- *)

\* A content is a sequence of tokens; the text is their spellings, joined
\* without anything in between.  Positions are character positions of that
\* text.  PAD is a run of 396 full stops, DOTS is "...", SP is one blank,
\* CODE is self.ean, YEAR is "2015"; every other token spells its own name.
MaxTokens == 4

\* Lines 470-471 and 583-584.
HalfWindow == 400

Vocabulary ==
    {"CODE", "EAN", "UPC", "SP", "PAD", "fue", "descatalogado", "nuevo",
     "comprar", "año", "YEAR"}

\* len() of a token's spelling.
TokLen(t) ==
    CASE t = "CODE" -> Len(ean)
      [] t = "PAD" -> 396
      [] t = "SP" -> 1
      [] t = "en" -> 2
      [] t \in {"EAN", "UPC", "fue", "año", "DOTS"} -> 3
      [] t = "YEAR" -> 4
      [] t = "nuevo" -> 5
      [] t = "comprar" -> 7
      [] t = "descatalogado" -> 13

\* \s of the regular expressions.
IsSpace(t) == t = "SP"

IsDots(t) == t \in {"PAD", "DOTS"}

\* \w of the regular expressions: every character of the token is one.
IsWord(t) == ~IsSpace(t) /\ ~IsDots(t)

\* The token starts with four digits.
StartsWithYear(t) == t \in {"YEAR", "CODE"}

\* group(1) of a \d{4} group matched at the start of the token; the first
\* four digits of the code 1234567890123 are 1234.
Digits4(t) == IF t = "YEAR" THEN "2015" ELSE "1234"

RECURSIVE Offset(_, _)
\* Position of the first character of token i (of the end of the text for
\* i = Len(c) + 1).
Offset(c, i) == IF i <= 1 THEN 0 ELSE Offset(c, i - 1) + TokLen(c[i - 1])

\* len(content)
ContentLen(c) == Offset(c, Len(c) + 1)

Max(a, b) == IF a >= b THEN a ELSE b

\* Line 456-459: the prefixes of the second to fifth mention pattern.
MentionPrefixes == <<"EAN", "código", "barcode", "UPC">>

NumMentionPatterns == 5

RECURSIVE PrefixAt(_, _)
\* Index of the token that ends right before the run of [\s:-]* in front of
\* token i, 0 when the text starts there.
PrefixAt(c, i) ==
    IF i = 1 THEN 0
    ELSE IF IsSpace(c[i - 1]) THEN PrefixAt(c, i - 1) ELSE i - 1

\* Lines 455-459: ean_patterns[p] matches with the code at token i.
MentionAt(c, p, i) ==
    /\ c[i] = "CODE"
    /\ IF p = 1
       THEN /\ (i = 1 \/ ~IsWord(c[i - 1]))
            /\ (i = Len(c) \/ ~IsWord(c[i + 1]))
       ELSE /\ PrefixAt(c, i) # 0
            /\ c[PrefixAt(c, i)] = MentionPrefixes[p - 1]

\* match.start() and match.end() of that match.
MatchOf(c, p, i) ==
    [pattern |-> p,
     mstart |-> IF p = 1 THEN Offset(c, i) ELSE Offset(c, PrefixAt(c, i)),
     mend |-> Offset(c, i) + TokLen(c[i])]

\* Line 466: pattern.finditer(content), left to right.
MatchesOf(c, p) ==
    LET idx == SelectSeq([i \in 1..Len(c) |-> i], LAMBDA i : MentionAt(c, p, i))
    IN  [k \in 1..Len(idx) |-> MatchOf(c, p, idx[k])]

RECURSIVE MentionsFrom(_, _)
\* Lines 465-468: the matches in the order the two loops visit them.
MentionsFrom(c, p) ==
    IF p > NumMentionPatterns THEN <<>>
    ELSE MatchesOf(c, p) \o MentionsFrom(c, p + 1)

Mentions(c) == MentionsFrom(c, 1)

\* Variant of WindowStart: no clamp at the start of the text.
WindowStart_NoClamp(pos) == pos - HalfWindow

\* Lines 470 and 583: start = max(0, pos - 400).
WindowStart(pos) == Max(0, pos - HalfWindow)

\* Lines 471 and 584: end = min(len(content), pos + 400).
WindowEnd(c, pos) == Min(ContentLen(c), pos + HalfWindow)

\* Token i lies wholly inside content[s:e].
Inside(c, i, s, e) == Offset(c, i) >= s /\ Offset(c, i + 1) <= e

\* Lines 522-531: the alternatives of each historical indicator.
historical_indicators ==
    << {"descatalogado", "discontinuado", "obsoleto", "discontinued", "obsolete"},
       {"ya no", "no disponible", "not available", "no longer"},
       {"versión anterior", "modelo antiguo", "previous version", "old model"},
       {"reemplazado por", "sustituido por", "replaced by", "substituted by"},
       {"histórico", "historia", "pasado", "historic", "history", "past"},
       {"fue", "era", "was", "were"},
       {"antiguo", "antigüedad", "antique", "vintage"},
       {"colección pasada", "colección anterior", "colección old",
        "collection pasada", "collection anterior", "collection old"} >>

\* Lines 533-542: the alternatives of each current indicator.
current_indicators ==
    << {"nuevo", "actual", "vigente", "new", "current"},
       {"disponible", "en stock", "available", "in stock"},
       {"versión actual", "último modelo", "current version", "latest model"},
       {"reciente", "recién", "recent", "recently"},
       {"comprar", "compra ahora", "buy", "buy now"},
       {"añadir al carrito", "add to cart"},
       {"precio actual", "current price"},
       {"envío gratis", "envío gratuito", "envío free",
        "shipping gratis", "shipping gratuito", "shipping free"} >>

\* re.search(pattern, context): an alternative of the pattern is spelled
\* inside content[s:e].
Found(c, s, e, alternatives) ==
    \E i \in 1..Len(c) : c[i] \in alternatives /\ Inside(c, i, s, e)

\* Lines 544-553: one is added for every indicator found in the context.
Score(c, s, e, indicators) ==
    Cardinality({p \in 1..Len(indicators) : Found(c, s, e, indicators[p])})

\* Variant of Assess: a tie counts as historical.
Assess_TieHistorical(historical_score, current_score) ==
    IF historical_score >= current_score THEN "Histórico" ELSE "Actual"

\* Lines 521, 555-558.
Assess(historical_score, current_score) ==
    IF historical_score > current_score THEN "Histórico"
    ELSE IF current_score > historical_score THEN "Actual"
    ELSE "Indeterminado"

\* Lines 499-509: the date patterns that a text of tokens can match, in the
\* order of the list, with their place in it.  digits tells whether the
\* keyword must be followed by [\s:]+ (or [\s,]+) and a \d{4} group.  The
\* patterns at places 2, 6 and 7 need "versión" and the like followed by
\* free text, or digits joined by "/" or "-".
date_patterns ==
    << [place |-> 1, digits |-> TRUE,
        keywords |-> {"año", "modelo", "year", "model"}],
       [place |-> 3, digits |-> FALSE,
        keywords |-> {"descatalogado", "discontinuado", "obsoleto",
                      "discontinued", "obsolete"}],
       [place |-> 4, digits |-> FALSE,
        keywords |-> {"anterior", "previo", "antiguo", "previous", "old", "former"}],
       [place |-> 5, digits |-> TRUE,
        keywords |-> {"desde", "hasta", "entre", "from", "to", "between"}],
       [place |-> 8, digits |-> TRUE,
        keywords |-> {"enero", "febrero", "marzo", "abril", "mayo", "junio",
                      "julio", "agosto", "septiembre", "octubre", "noviembre",
                      "diciembre"}],
       [place |-> 9, digits |-> TRUE,
        keywords |-> {"january", "february", "march", "april", "may", "june",
                      "july", "august", "september", "october", "november",
                      "december"}] >>

RECURSIVE AfterSpaces(_, _)
\* Index of the first token at or after i that is not white space.
AfterSpaces(c, i) ==
    IF i > Len(c) THEN i
    ELSE IF IsSpace(c[i]) THEN AfterSpaces(c, i + 1) ELSE i

\* The date pattern dp matches inside content[s:e] with its keyword at
\* token i.
DateAt(c, s, e, dp, i) ==
    /\ c[i] \in dp.keywords
    /\ Inside(c, i, s, e)
    /\ dp.digits =>
          /\ i < Len(c) /\ IsSpace(c[i + 1])
          /\ AfterSpaces(c, i + 1) <= Len(c)
          /\ StartsWithYear(c[AfterSpaces(c, i + 1)])
          /\ Offset(c, AfterSpaces(c, i + 1)) + 4 <= e

\* Variant of DateValue: a pattern without a group gives no clue.
DateValue_GroupsOnly(c, dp, i) ==
    IF dp.digits THEN Digits4(c[AfterSpaces(c, i + 1)]) ELSE "No identificado"

\* Lines 514-517: group(1) if the pattern has a group, else group(0).
DateValue(c, dp, i) ==
    IF dp.digits THEN Digits4(c[AfterSpaces(c, i + 1)]) ELSE c[i]

RECURSIVE DateFrom(_, _, _, _)
\* Lines 498-518: the first pattern of the list that matches decides, by
\* its leftmost match.
DateFrom(c, s, e, k) ==
    IF k > Len(date_patterns) THEN "No identificado"
    ELSE LET hits == {i \in 1..Len(c) : DateAt(c, s, e, date_patterns[k], i)}
         IN  IF hits # {}
             THEN DateValue(c, date_patterns[k],
                            CHOOSE i \in hits : \A j \in hits : i <= j)
             ELSE DateFrom(c, s, e, k + 1)

date_clue(c, s, e) == DateFrom(c, s, e, 1)

\* The part of token i that content[s:e] holds.  Full stops are all alike,
\* so a run of them is told by its length alone.
Piece(c, i, s, e) ==
    LET lo == Max(s, Offset(c, i)) - Offset(c, i)
        hi == Min(e, Offset(c, i + 1)) - Offset(c, i)
    IN  IF IsDots(c[i]) THEN [t |-> ".", lo |-> 0, hi |-> hi - lo]
        ELSE [t |-> c[i], lo |-> lo, hi |-> hi]

\* Line 472: context = content[start:end]
Context(c, s, e) ==
    LET idx == SelectSeq([i \in 1..Len(c) |-> i],
                         LAMBDA i : Max(s, Offset(c, i)) < Min(e, Offset(c, i + 1)))
    IN  [k \in 1..Len(idx) |-> Piece(c, idx[k], s, e)]

RECURSIVE Squeeze(_, _)
\* re.sub(r'\s+', ' ', context) and the left half of strip(): runs of white
\* space become one blank, white space at the start goes.  acc is the text
\* built so far.
Squeeze(acc, rest) ==
    IF rest = <<>> THEN acc
    ELSE LET x == Head(rest)
             last == acc[Len(acc)]
         IN  IF x.t = "SP"
             THEN IF acc = <<>> \/ last.t = "SP"
                  THEN Squeeze(acc, Tail(rest))
                  ELSE Squeeze(Append(acc, [t |-> "SP", lo |-> 0, hi |-> 1]), Tail(rest))
             ELSE IF x.t = "." /\ acc # <<>> /\ last.t = "."
             THEN Squeeze([acc EXCEPT ![Len(acc)].hi = @ + x.hi], Tail(rest))
             ELSE Squeeze(Append(acc, x), Tail(rest))

\* Lines 561 and 599: re.sub(r'\s+', ' ', context).strip()
Clean(context) ==
    LET sq == Squeeze(<<>>, context)
    IN  IF sq # <<>> /\ sq[Len(sq)].t = "SP" THEN SubSeq(sq, 1, Len(sq) - 1) ELSE sq

\* Lines 470-577: the finding of one match.  start, end, the match and the
\* two scores are the loop's locals, kept with the finding.
FindingOf(c, m) ==
    LET s == WindowStart(m.mstart)
        e == WindowEnd(c, m.mend)
        h == Score(c, s, e, historical_indicators)
        cur == Score(c, s, e, current_indicators)
    IN  [fallback |-> FALSE,
         pattern |-> m.pattern, mstart |-> m.mstart, mend |-> m.mend,
         start |-> s, end |-> e,
         historical_score |-> h, current_score |-> cur,
         date_clue |-> date_clue(c, s, e),
         assessment |-> Assess(h, cur),
         snippet |-> Clean(Context(c, s, e))]

\* Variant of IsDuplicate: a finding is a duplicate when its window is.
IsDuplicate_ByWindow(findings, f) ==
    \E k \in 1..Len(findings) :
        findings[k].start = f.start /\ findings[k].end = f.end

\* Lines 564-568.
IsDuplicate(findings, f) ==
    \E k \in 1..Len(findings) : findings[k].snippet = f.snippet

RECURSIVE Collect(_, _, _)
\* Lines 465-577: the findings list after the two loops.
Collect(c, findings, ms) ==
    IF ms = <<>> THEN findings
    ELSE LET f == FindingOf(c, Head(ms))
         IN  Collect(c, IF IsDuplicate(findings, f) THEN findings
                        ELSE Append(findings, f), Tail(ms))

\* self.ean in content
Contains(c) == \E i \in 1..Len(c) : c[i] = "CODE"

\* content.find(self.ean)
ean_pos(c) == Offset(c, CHOOSE i \in 1..Len(c) :
                  c[i] = "CODE" /\ \A j \in 1..(i - 1) : c[j] # "CODE")

\* Lines 580-601: the finding made when no pattern matched.
FallbackFinding(c) ==
    LET s == WindowStart(ean_pos(c))
        e == WindowEnd(c, ean_pos(c))
    IN  [fallback |-> TRUE,
         pattern |-> 0, mstart |-> ean_pos(c), mend |-> ean_pos(c) + Len(ean),
         start |-> s, end |-> e,
         historical_score |-> 0, current_score |-> 0,
         date_clue |-> "No identificado",
         assessment |-> "Indeterminado",
         snippet |-> Clean(Context(c, s, e))]

\* Variant of WithFallback: the fallback is never taken.
WithFallback_Never(c, findings) == findings

\* Lines 580-601.
WithFallback(c, findings) ==
    IF findings = <<>> /\ Contains(c) THEN <<FallbackFinding(c)>> ELSE findings

\* Lines 450-451 and 462-609.
analyze_content(c) ==
    IF c = <<>> THEN [called |-> TRUE, none |-> TRUE, findings |-> <<>>]
    ELSE LET findings == WithFallback(c, Collect(c, <<>>, Mentions(c)))
         IN  [called |-> TRUE, none |-> findings = <<>>, findings |-> findings]

\* The content of the worked example: "...EAN 1234567890123 fue
\* descatalogado en 2015..."
ExampleContent ==
    <<"DOTS", "EAN", "SP", "CODE", "SP", "fue", "SP", "descatalogado", "SP",
      "en", "SP", "YEAR", "DOTS">>

RECURSIVE SeqsUpTo(_, _)
SeqsUpTo(S, n) ==
    IF n = 0 THEN {<<>>}
    ELSE LET shorter == SeqsUpTo(S, n - 1)
         IN  shorter \cup {Append(q, x) : q \in shorter, x \in S}

\* A content whose two mentions have windows that differ by one leading
\* blank.
ShiftedContent == <<"SP", "PAD", "EAN", "SP", "CODE">>

Contents == SeqsUpTo(Vocabulary, MaxTokens) \cup {ExampleContent, ShiftedContent}

\* One call of analyze_content(content, url).
AnalyzeStep ==
    /\ ~analyzed.called
    /\ analyzed' = analyze_content(content)
    /\ UNCHANGED <<orchVars, netVars, repVars, intVars, pxVars, content>>

InitAnalyze ==
    /\ ean = EAN123
    /\ OrchIdle /\ NetIdle /\ RepIdle /\ IntIdle /\ PxIdle
    /\ content \in Contents
    /\ analyzed = NotAnalyzed

SpecAnalyze == InitAnalyze /\ [][AnalyzeStep]_vars

(* ------------------ claims about analyze_content() --------------------- *)

Findings == analyzed.findings

\* Number of the given indicator patterns with a match inside the window
\* of the finding f.
PatternsMatching(f, indicators) ==
    Cardinality({p \in 1..Len(indicators) :
        \E i \in 1..Len(content) :
            /\ content[i] \in indicators[p]
            /\ Offset(content, i) >= f.start
            /\ Offset(content, i + 1) <= f.end})

\* C11: the assessment of a finding made from a mention is decided by a
\* strict, unweighted comparison of the number of historical indicator
\* patterns and the number of current indicator patterns that match in its
\* window, each pattern counted at most once; more historical gives
\* Historical, more current gives Current, a tie (0-0 included) gives
\* Indeterminate.
C11_AssessmentByCounts ==
    \A k \in 1..Len(Findings) :
        LET f == Findings[k]
            h == PatternsMatching(f, historical_indicators)
            c == PatternsMatching(f, current_indicators)
        IN  ~f.fallback =>
               /\ f.historical_score = h
               /\ f.current_score = c
               /\ (h > c) <=> (f.assessment = "Histórico")
               /\ (c > h) <=> (f.assessment = "Actual")
               /\ (h = c) <=> (f.assessment = "Indeterminado")

\* A finding whose window holds one historical and one current indicator.
C11_Witness ==
    \E k \in 1..Len(Findings) :
        /\ ~Findings[k].fallback
        /\ Findings[k].historical_score = 1
        /\ Findings[k].current_score = 1
        /\ Findings[k].assessment = "Indeterminado"

\* The cleaned snippet of the window around a match.
SnippetOf(m) ==
    Clean(Context(content, WindowStart(m.mstart), WindowEnd(content, m.mend)))

\* The match m is visited before the match n: pattern order, then match
\* order.
Before(m, n) ==
    \/ m.pattern < n.pattern
    \/ m.pattern = n.pattern /\ m.mstart < n.mstart

\* C12: no two findings of one content have the same white-space-normalized
\* snippet, and of the matches that give the same snippet the first one
\* visited (pattern order, then match order) is the one kept.
C12_SnippetsDistinct ==
    /\ \A j, k \in 1..Len(Findings) :
          j # k => Findings[j].snippet # Findings[k].snippet
    /\ analyzed.called =>
          \A m \in Range(Mentions(content)) :
              \E k \in 1..Len(Findings) :
                  /\ Findings[k].snippet = SnippetOf(m)
                  /\ ~Before(m, [pattern |-> Findings[k].pattern,
                                 mstart |-> Findings[k].mstart])

\* Two matches with different windows and the same cleaned snippet.
C12_Witness ==
    /\ Len(Findings) = 1
    /\ \E m, n \in Range(Mentions(content)) :
          /\ WindowStart(m.mstart) # WindowStart(n.mstart)
          /\ SnippetOf(m) = SnippetOf(n)

\* C13: analyze_content on "...EAN 1234567890123 fue descatalogado en
\* 2015..." with the code 1234567890123 gives exactly one finding, with
\* assessment Historical and date_clue "2015".
C13_Example ==
    (content = ExampleContent /\ analyzed.called) =>
        /\ Len(Findings) = 1
        /\ Findings[1].assessment = "Histórico"
        /\ Findings[1].date_clue = "2015"

\* C13, as the code has it: on that content the one finding has assessment
\* Historical and the date clue "descatalogado": the keyword pattern is the
\* first date pattern that matches, and "en 2015" matches none.
C13_ExampleKeyword ==
    (content = ExampleContent /\ analyzed.called) =>
        /\ Len(Findings) = 1
        /\ Findings[1].assessment = "Histórico"
        /\ Findings[1].date_clue = "descatalogado"

\* analyze_content has been called on the content of the example; both the
\* exact pattern and the "EAN" prefix pattern match in it.
C13_Witness ==
    /\ content = ExampleContent
    /\ analyzed.called
    /\ Len(Mentions(content)) = 2

\* C14: analyze_content returns a result with at least one finding exactly
\* when the content holds the code as a substring; when the code occurs
\* and no mention pattern matches, the result is one fallback finding with
\* assessment Indeterminate and no date clue; an empty content, or one
\* without the code, gives no result.
C14_FindingIffCode ==
    analyzed.called =>
        LET occurs == \E i \in 1..Len(content) : content[i] = "CODE"
        IN  /\ (~analyzed.none /\ Len(Findings) >= 1) <=> occurs
            /\ analyzed.none <=> ~occurs
            /\ analyzed.none => Findings = <<>>
            /\ (occurs /\ Mentions(content) = <<>>) =>
                  /\ Len(Findings) = 1
                  /\ Findings[1].fallback
                  /\ Findings[1].assessment = "Indeterminado"
                  /\ Findings[1].date_clue = "No identificado"

\* The code occurs inside a longer word, next to indicator words: the
\* fallback finding is made.
C14_Witness ==
    /\ Len(Findings) = 1
    /\ Findings[1].fallback
    /\ \E i \in 1..Len(content) : content[i] = "descatalogado"

\* C15: every window satisfies 0 <= start <= end <= len(content); the
\* window of a pattern match starts at most 400 characters before the
\* match, ends at most 400 characters after it, and holds the whole match.
C15_WindowInBounds ==
    /\ \A k \in 1..Len(Findings) :
          LET f == Findings[k]
          IN  /\ 0 <= f.start /\ f.start <= f.end
              /\ f.end <= ContentLen(content)
              /\ ~f.fallback =>
                    /\ f.start <= f.mstart /\ f.mstart - f.start <= HalfWindow
                    /\ f.mend <= f.end /\ f.end - f.mend <= HalfWindow
    /\ analyzed.called =>
          \A m \in Range(Mentions(content)) :
              /\ 0 <= WindowStart(m.mstart)
              /\ WindowStart(m.mstart) <= m.mstart
              /\ m.mend <= WindowEnd(content, m.mend)
              /\ WindowEnd(content, m.mend) <= ContentLen(content)

\* A window cut by the start of the text and one that is not, one of them
\* cut by the end of the text.
C15_Witness ==
    /\ \E k \in 1..Len(Findings) :
          /\ ~Findings[k].fallback
          /\ Findings[k].start = 0 /\ Findings[k].mstart < HalfWindow
    /\ \E k \in 1..Len(Findings) :
          /\ ~Findings[k].fallback
          /\ Findings[k].start > 0
          /\ Findings[k].mstart - Findings[k].start = HalfWindow
          /\ Findings[k].end = ContentLen(content)
          /\ Findings[k].mend + HalfWindow > ContentLen(content)

(* ----------------------- claims about reporting ------------------------ *)

\* Number of k with fs[k] = f.
Occurrences(fs, f) == Cardinality({k \in 1..Len(fs) : fs[k] = f})

RECURSIVE CopiesOfFinding(_, _)
\* How often the finding f stands in the results of the set R, each result
\* counted as often as search() returned it.
CopiesOfFinding(f, R) ==
    IF R = {} THEN 0
    ELSE LET r == CHOOSE x \in R : TRUE
         IN  CopiesIn(r, retval.value) * Occurrences(r.findings, f)
             + CopiesOfFinding(f, R \ {r})

\* The findings of the returned results.
ReturnedFindings ==
    UNION {Range(r.findings) : r \in BagToSet(retval.value)}

RECURSIVE TotalFindings(_)
TotalFindings(R) ==
    IF R = {} THEN 0
    ELSE LET r == CHOOSE x \in R : TRUE
         IN  CopiesIn(r, retval.value) * Len(r.findings) + TotalFindings(R \ {r})

RECURSIVE SumOver(_, _)
SumOver(S, B) ==
    IF S = {} THEN 0
    ELSE LET g == CHOOSE x \in S : TRUE
         IN  BagCardinality(B[g]) + SumOver(S \ {g}, B)

\* C16: for the non-empty list search() returned, format_results puts
\* every finding into exactly one of the six groups (every assessment the
\* program produces is one of the six keys), and save_results_to_csv makes
\* exactly one row per finding; findings of different sources are never
\* merged, also when they are alike.
C16_EveryFindingReported ==
    /\ (findings_by_assessment.state # "unset" /\ retval.value # EmptyBag) =>
          /\ findings_by_assessment.state = "built"
          /\ \A f \in ReturnedFindings :
                /\ f.assessment \in GroupKeys
                /\ \A g \in GroupKeys :
                      CopiesIn(f, findings_by_assessment.groups[g]) =
                         IF g = f.assessment
                         THEN CopiesOfFinding(f, BagToSet(retval.value))
                         ELSE 0
          /\ SumOver(GroupKeys, findings_by_assessment.groups) =
                TotalFindings(BagToSet(retval.value))
    /\ (csv_data.state # "unset" /\ retval.value # EmptyBag) =>
          /\ csv_data.state = "written"
          /\ BagCardinality(csv_data.rows) = TotalFindings(BagToSet(retval.value))
          /\ \A f \in ReturnedFindings :
                CopiesIn([EAN |-> ean, URL |-> f.url, Evaluacion |-> f.assessment,
                          Fragmento |-> f.snippet], csv_data.rows) =
                   CopiesOfFinding(f, BagToSet(retval.value))

\* The rows are written for a list in which two pages have findings that
\* are alike but for the source, and a page has two findings.
C16_Witness ==
    /\ csv_data.state = "written"
    /\ \E f, g \in ReturnedFindings :
          f.url # g.url /\ f.assessment = g.assessment /\ f.snippet = g.snippet
    /\ \E r \in BagToSet(retval.value) : Len(r.findings) = 2
    /\ BagCardinality(findings_by_assessment.groups["Histórico"]) > 0
    /\ BagCardinality(findings_by_assessment.groups["Wayback"]) > 0

(* --------------------- an interrupt during search() -------------------- *)

\* Lines 91-103: len(self.search_terms).
NumSearchTerms == 11

\* Lines 350-354 with the search terms of lines 91-103.
FirstWaveFull ==
    [j \in 1..(3 + NumSearchTerms) |->
        IF j <= 3 THEN EnrTask(j) ELSE GoogleTask(j - 3)]

\* Lines 337-356 for a valid code and the full list of search terms.
SearchStartFull ==
    /\ pc = "start"
    /\ validate_ean(ean) = "True"
    /\ verdict' = "True"
    /\ submitted' = submitted \o FirstWaveFull
    /\ pc' = "loop1"
    /\ UNCHANGED <<sideVars, netVars, ean, done, ret, seen1, seen2, all_results, retval>>

\* The work items a worker has taken from the queue so far.
Started == done \cup Running

\* A KeyboardInterrupt is raised in the thread that runs search() while it
\* waits in the first as_completed loop (line 356), before that loop has
\* taken a result.  The exception is no Exception (line 366), so it leaves
\* the with block of line 348, whose exit calls shutdown(wait=True).
Interrupt ==
    /\ pc = "loop1"
    /\ seen1 = {}
    /\ ~interrupted
    /\ interrupted' = TRUE
    /\ started' = Cardinality(Started)
    /\ pc' = "shutdown"
    /\ UNCHANGED <<anVars, repVars, pxVars, netVars, ean, verdict, submitted, done,
                   ret, seen1, seen2, all_results, retval>>

\* shutdown(wait=True) returns when the workers have emptied the queue and
\* ended; main() then logs the cancellation and calls sys.exit(1) (lines
\* 825-827).
ExitAfterInterrupt ==
    /\ pc = "shutdown"
    /\ Undone = <<>>
    /\ pc' = "exit"
    /\ UNCHANGED <<sideVars, netVars, ean, verdict, submitted, done, ret, seen1,
                   seen2, all_results, retval>>

InitInterrupt ==
    /\ ean = EAN128
    /\ OrchIdle /\ NetIdle
    /\ AnIdle /\ RepIdle /\ IntIdle /\ PxIdle

NextInterrupt == SearchStartFull \/ Worker \/ Interrupt \/ ExitAfterInterrupt

SpecInterrupt == InitInterrupt /\ [][NextInterrupt]_vars

\* C17: after an interrupt the orchestrator submits no further task, the
\* tasks in flight finish and the program exits; no task that had not been
\* started by a worker when the interrupt arrived is started afterwards.
C17_NoStartAfterInterrupt ==
    interrupted =>
        /\ Len(submitted) = 3 + NumSearchTerms
        /\ Cardinality(Started) <= started

(* ----------- _request_with_retry() in concurrent workers --------------- *)

\* Worker threads of the pool that are inside a task at the same time.
NumThreads == 2

\* Calls of _request_with_retry each of them makes.
MaxRequests == 2

\* Longest proxy list given with --proxy.
MaxProxies == 2

Threads == 1..NumThreads

\* No proxy: get_next_proxy() returned None (line 122).
NoProxy == -1

\* A worker about to call _request_with_retry, with n calls to make.
AtCall(n) == [pc |-> "call", idx |-> 0, tmp |-> 0, proxy |-> NoProxy, left |-> n]

\* An access of worker w to an attribute of the shared finder object.
Access(w, attr, mode) == [thread |-> w, attr |-> attr, mode |-> mode]

\* Line 140, lines 116-118: rotate_user_agent() updates the headers of the
\* session all workers share.
RotateUserAgent(w) ==
    /\ thread[w].pc = "call"
    /\ thread[w].left > 0
    /\ thread' = [thread EXCEPT ![w].pc = "get_next_proxy"]
    /\ touched' = touched \cup {Access(w, "session.headers", "write")}
    /\ UNCHANGED <<anVars, repVars, intVars, orchVars, netVars, proxies,
                   proxy_index, issued>>

\* Lines 121-123: with no proxies None is returned; else self.proxy_index is
\* read and the proxy at that index, modulo the length, is taken.
SelectProxy(w) ==
    /\ thread[w].pc = "get_next_proxy"
    /\ IF proxies = 0
       THEN /\ thread' = [thread EXCEPT ![w].pc = "get", ![w].proxy = NoProxy]
            /\ UNCHANGED touched
       ELSE /\ thread' = [thread EXCEPT ![w].pc = "load",
                                        ![w].idx = proxy_index,
                                        ![w].proxy = proxy_index % proxies]
            /\ touched' = touched \cup {Access(w, "proxy_index", "read")}
    /\ UNCHANGED <<anVars, repVars, intVars, orchVars, netVars, proxies,
                   proxy_index, issued>>

\* Line 124, first half of self.proxy_index += 1: the attribute is read.
IncrementLoad(w) ==
    /\ thread[w].pc = "load"
    /\ thread' = [thread EXCEPT ![w].pc = "store", ![w].tmp = proxy_index]
    /\ touched' = touched \cup {Access(w, "proxy_index", "read")}
    /\ UNCHANGED <<anVars, repVars, intVars, orchVars, netVars, proxies,
                   proxy_index, issued>>

\* Line 124, second half: the sum is stored.
IncrementStore(w) ==
    /\ thread[w].pc = "store"
    /\ proxy_index' = thread[w].tmp + 1
    /\ thread' = [thread EXCEPT ![w].pc = "get"]
    /\ touched' = touched \cup {Access(w, "proxy_index", "write")}
    /\ UNCHANGED <<anVars, repVars, intVars, orchVars, netVars, proxies, issued>>

\* Lines 142-144: session.get with the proxy, if there is one; the request
\* is sent with the headers of the session.
SessionGet(w) ==
    /\ thread[w].pc = "get"
    /\ issued' = Append(issued, [thread |-> w, proxy |-> thread[w].proxy])
    /\ thread' = [thread EXCEPT ![w].pc = "call", ![w].left = @ - 1]
    /\ touched' = touched \cup {Access(w, "session.headers", "read")}
    /\ UNCHANGED <<anVars, repVars, intVars, orchVars, netVars, proxies, proxy_index>>

InitProxy ==
    /\ ean = EAN128
    /\ OrchIdle /\ NetIdle /\ AnIdle /\ RepIdle /\ IntIdle
    /\ proxies \in 0..MaxProxies
    /\ proxy_index = 0
    /\ thread = [w \in Threads |-> AtCall(MaxRequests)]
    /\ issued = <<>>
    /\ touched = {}

NextProxy ==
    \E w \in Threads :
        \/ RotateUserAgent(w)
        \/ SelectProxy(w)
        \/ IncrementLoad(w)
        \/ IncrementStore(w)
        \/ SessionGet(w)

SpecProxy == InitProxy /\ [][NextProxy]_vars

\* C18: the task registry and the result accumulator, which only the
\* orchestrating thread touches, are the only mutable state workers share:
\* no worker writes an attribute that another worker reads or writes.
C18_NoSharedWrites ==
    \A a, b \in touched :
        (a.thread # b.thread /\ a.attr = b.attr) =>
            (a.mode = "read" /\ b.mode = "read")

\* No worker is inside _request_with_retry.
Quiescent == \A w \in Threads : thread[w].pc = "call"

\* C19: with n > 0 proxies no two of any n consecutive requests use the
\* same proxy, and after m requests proxy_index is m, also when workers
\* issue requests concurrently; with no proxies proxy_index never changes
\* and no request is given a proxy.
C19_RoundRobin ==
    /\ proxies > 0 =>
          /\ \A j, k \in 1..Len(issued) :
                (j < k /\ k - j < proxies) => issued[j].proxy # issued[k].proxy
          /\ Quiescent => proxy_index = Len(issued)
    /\ proxies = 0 =>
          /\ proxy_index = 0
          /\ \A k \in 1..Len(issued) : issued[k].proxy = NoProxy

(* ------------------ claims about search_with_requests() ---------------- *)

\* Place of the first candidate with link l in the list hits.
FirstPlace(hits, l) ==
    CHOOSE k \in 1..Len(hits) :
        hits[k] = l /\ \A j \in 1..(k - 1) : hits[j] # l

\* C20: search_with_requests tries the three domains in their fixed order
\* and returns the candidates of the first domain that gives at least one,
\* never candidates of two domains; a domain that answers with a non-200
\* status, raises, or gives no candidate is skipped; if all three fail,
\* the empty list is returned and no exception leaves the function; the
\* returned list has no two candidates with the same link and keeps the
\* first of each, in order.
C20_FirstDomainWins ==
    site = "search_with_requests" =>
        /\ tpc # "raised"
        /\ \A j \in 1..Len(requests_log) : requests_log[j].url = j
        /\ \A j \in 1..(Len(requests_log) - 1) : requests_log[j].resp # "200_hits"
        /\ tpc = "finished" =>
              LET last == requests_log[Len(requests_log)]
              IN  IF last.resp = "200_hits"
                  THEN /\ \A k \in 1..Len(unique_results) :
                             /\ unique_results[k].domain = last.url
                             /\ unique_results[k].link \in Range(last.hits)
                       /\ Range(last.hits) =
                             {unique_results[k].link : k \in 1..Len(unique_results)}
                       /\ \A j, k \in 1..Len(unique_results) :
                             j < k =>
                                /\ unique_results[j].link # unique_results[k].link
                                /\ FirstPlace(last.hits, unique_results[j].link)
                                      < FirstPlace(last.hits, unique_results[k].link)
                  ELSE /\ Len(requests_log) = NumDomains
                       /\ unique_results = <<>>
                       /\ task_ret = "empty_list"

\* The first domain raised, the second gave no candidate, the third gave a
\* list in which a link comes again after another one.
C20_Witness ==
    /\ site = "search_with_requests"
    /\ tpc = "finished"
    /\ Len(requests_log) = NumDomains
    /\ requests_log[1].resp \in RequestExceptions
    /\ requests_log[2].resp = "200_empty"
    /\ requests_log[3].hits = <<1, 2, 1>>
    /\ Len(unique_results) = 2

====
